---- MODULE Spec2Model ----
(***************************************************************************)
(* HRT Major Filter App: the two Streamlit pages src/streamlit_app.py (the *)
(* main page) and src/pages/testing_area_app.py (the testing page).        *)
(*                                                                         *)
(* A Streamlit script runs top to bottom once per user interaction.  The   *)
(* model follows one script run as a sequence of steps (pc), started by a  *)
(* user event on a widget, and keeps what the run rendered in `messages`   *)
(* and in the result variables.                                            *)
(*                                                                         *)
(* Names (column headers, the text typed in the column box) are sequences  *)
(* of one-character strings, so that strip() and lower() are computed.     *)
(* Cell values are records [t, v]: t is the cell's type ("int", "str" or   *)
(* "nan" for an empty cell), v a number identifying the content, so        *)
(* IntVal(1) is the number 1 and StrVal(1) the text "1".                   *)
(***************************************************************************)
EXTENDS Integers, Sequences, FiniteSets, TLC

\* ------------------------------------------------------------------ bounds
\* rows in an uploaded majors sheet, rows in an uploaded attendee sheet
MaxHrtRows == 2
MaxBbqRows == 2
\* length of the raw column names of NormSpec
MaxNameLen == 3

\* ------------------------------------------------------------- characters
Whitespace == {" "}
UpperChars == <<"B", "D", "I", "K", "N">>
LowerChars == <<"b", "d", "i", "k", "n">>

\* str.lower() on one character
LowerChar(c) ==
    IF \E i \in 1..Len(UpperChars) : UpperChars[i] = c
    THEN LowerChars[CHOOSE i \in 1..Len(UpperChars) : UpperChars[i] = c]
    ELSE c

\* str.swapcase() on one character
SwapChar(c) ==
    IF \E i \in 1..Len(UpperChars) : UpperChars[i] = c
    THEN LowerChars[CHOOSE i \in 1..Len(UpperChars) : UpperChars[i] = c]
    ELSE IF \E i \in 1..Len(LowerChars) : LowerChars[i] = c
         THEN UpperChars[CHOOSE i \in 1..Len(LowerChars) : LowerChars[i] = c]
         ELSE c

RECURSIVE LStrip(_)
LStrip(s) == IF s # <<>> /\ Head(s) \in Whitespace THEN LStrip(Tail(s)) ELSE s

RECURSIVE RStrip(_)
RStrip(s) ==
    IF s # <<>> /\ s[Len(s)] \in Whitespace
    THEN RStrip(SubSeq(s, 1, Len(s) - 1))
    ELSE s

\* str.strip(): surrounding whitespace removed
Strip(s) == RStrip(LStrip(s))

\* mutant: str.swapcase() in place of str.lower()
SwapCase(s) == [i \in 1..Len(s) |-> SwapChar(s[i])]

\* str.lower()
Lower(s) == [i \in 1..Len(s) |-> LowerChar(s[i])]

\* df.columns.str.strip().str.lower() on one column name
NormalizeName(s) == Lower(Strip(s))

\* `sub in s` for Python strings
Contains(sub, s) ==
    \E i \in 0..(Len(s) - Len(sub)) : SubSeq(s, i + 1, i + Len(sub)) = sub

\* ------------------------------------------------------------ cell values
IntVal(n) == [t |-> "int", v |-> n]
StrVal(n) == [t |-> "str", v |-> n]
NaN == [t |-> "nan", v |-> 0]
IsNa(x) == x.t = "nan"

\* ------------------------------------------------------------- DataFrames
\* A DataFrame: column labels, row labels (the pandas index) and the rows, each
\* row a tuple of cells in column order.  defined = FALSE stands for None.
NoDF == [defined |-> FALSE, columns |-> <<>>, index |-> <<>>, rows |-> <<>>]

\* Python None where a column name is expected (no name is this sequence:
\* names are sequences of one-character strings)
None == <<"None">>

\* bool(name): None and "" are falsy
Truthy(name) == name # None /\ name # <<>>

\* `col in df.columns`
HasColumn(df, col) == \E i \in 1..Len(df.columns) : df.columns[i] = col

ColPos(df, col) ==
    CHOOSE i \in 1..Len(df.columns) :
        /\ df.columns[i] = col
        /\ \A j \in 1..(i - 1) : df.columns[j] # col

\* df[col]: the cells of one column, in row order
Series(df, col) == [i \in 1..Len(df.rows) |-> df.rows[i][ColPos(df, col)]]

\* mutant: IEEE comparison, under which an empty cell equals nothing
ValueEqIEEE(x, y) == x = y /\ ~IsNa(x)

\* equality of two cells as Series.isin tests it: same type and same content;
\* its hash table finds an empty cell (NaN) equal to an empty cell
ValueEq(x, y) == x = y

\* mutant: a cell is looked up in the first row of `values` only
IsInFirstRow(series, values) ==
    [i \in 1..Len(series) |-> Len(values) > 0 /\ ValueEq(series[i], values[1])]

\* Series.isin(values): one boolean per cell of `series`
IsIn(series, values) ==
    [i \in 1..Len(series) |-> \E j \in 1..Len(values) : ValueEq(series[i], values[j])]

\* mutant: the mask is not inverted
NotInverted(mask) == mask

\* ~mask
Invert(mask) == [i \in 1..Len(mask) |-> ~mask[i]]

\* mutant: the last row of the table is never looked at
RECURSIVE KeepPosButLast(_, _)
KeepPosButLast(mask, i) ==
    IF i >= Len(mask) THEN <<>>
    ELSE IF mask[i] THEN <<i>> \o KeepPosButLast(mask, i + 1)
         ELSE KeepPosButLast(mask, i + 1)

\* positions i..Len(mask) where mask is True, ascending
RECURSIVE KeepPos(_, _)
KeepPos(mask, i) ==
    IF i > Len(mask) THEN <<>>
    ELSE IF mask[i] THEN <<i>> \o KeepPos(mask, i + 1)
         ELSE KeepPos(mask, i + 1)

\* mutant: the selected rows come out last first
BoolIndexReversed(df, mask) ==
    LET pos == KeepPos(mask, 1)
        n   == Len(pos)
    IN [defined |-> TRUE,
        columns |-> df.columns,
        index   |-> [k \in 1..n |-> df.index[pos[n + 1 - k]]],
        rows    |-> [k \in 1..n |-> df.rows[pos[n + 1 - k]]]]

\* df[mask]: boolean indexing keeps the rows whose mask is True, with their
\* index labels, in the order of df, under the columns of df
BoolIndex(df, mask) ==
    LET pos == KeepPos(mask, 1) IN
    [defined |-> TRUE,
     columns |-> df.columns,
     index   |-> [k \in 1..Len(pos) |-> df.index[pos[k]]],
     rows    |-> [k \in 1..Len(pos) |-> df.rows[pos[k]]]]

\* mutant: the `~` left out, so the matching rows are kept
FilterKeepsMatches(bbq, bbq_col, hrt, hrt_col) ==
    BoolIndex(bbq, IsIn(Series(bbq, bbq_col), Series(hrt, hrt_col)))

\* mutant: the two tables swapped, so rows of the majors table are filtered
FilterSwapsTables(bbq, bbq_col, hrt, hrt_col) ==
    BoolIndex(hrt, Invert(IsIn(Series(hrt, hrt_col), Series(bbq, bbq_col))))

\* bbq_df[~bbq_df[bbq_col].isin(hrt_df[hrt_col])]
FilterNonHrt(bbq, bbq_col, hrt, hrt_col) ==
    BoolIndex(bbq, Invert(IsIn(Series(bbq, bbq_col), Series(hrt, hrt_col))))

\* bbq_df[bbq_df[bbq_col].isin(hrt_df[hrt_col])]
FilterHrtAtBbq(bbq, bbq_col, hrt, hrt_col) ==
    BoolIndex(bbq, IsIn(Series(bbq, bbq_col), Series(hrt, hrt_col)))

\* series.dropna()
DropNa(series) == SelectSeq(series, LAMBDA x : ~IsNa(x))

\* type(series.dropna().iloc[0]).__name__, None when dropna() is empty.
\* pandas reads a column of whole numbers as int64, of whole numbers and empty
\* cells as float64, and any column holding text as object, whose cells keep
\* their Python types.
SampleType(series) ==
    LET vals  == DropNa(series)
        types == {series[i].t : i \in 1..Len(series)}
    IN IF vals = <<>> THEN "None"
       ELSE IF "str" \in types THEN vals[1].t
       ELSE IF "nan" \in types THEN "float64"
       ELSE "int64"

\* mutant: the export is offered from the second row on
HasSeveralRows(df) == Len(df.rows) > 1

\* `if len(non_hrt_attendees) > 0:`, the test that guards the export
HasRows(df) == Len(df.rows) > 0

\* mutant: to_excel with its default index=True, the row labels written as a
\* first, unnamed column
CreateDownloadLinkWithIndex(df) ==
    [sheet |-> "Non_HRT_Attendees",
     columns |-> << <<>> >> \o df.columns,
     rows |-> [i \in 1..Len(df.rows) |-> <<IntVal(df.index[i])>> \o df.rows[i]]]

\* df.to_excel(writer, index=False, sheet_name='Non_HRT_Attendees')
CreateDownloadLink(df) ==
    [sheet |-> "Non_HRT_Attendees", columns |-> df.columns, rows |-> df.rows]

\* --------------------------------------------------------- uploaded files
\* 'bronco id', 'id', 'student id', 'student_id'
Keywords ==
    { <<"b", "r", "o", "n", "c", "o", " ", "i", "d">>,
      <<"i", "d">>,
      <<"s", "t", "u", "d", "e", "n", "t", " ", "i", "d">>,
      <<"s", "t", "u", "d", "e", "n", "t", "_", "i", "d">> }

\* the default of the main page's "Comparison Column Name" box
DefaultComparisonColumn == <<"b", "r", "o", "n", "c", "o", " ", "i", "d">>

\* what a user types in that box: the default, the header as the files spell
\* it, another column
ComparisonColumns ==
    { DefaultComparisonColumn,
      <<"B", "r", "o", "n", "c", "o", " ", "I", "D">>,
      <<"k", "e", "y">> }

\* the header rows of the uploaded sheets, as written in the files.  Every
\* header is text and no two headers of a sheet clean to the same name, so a
\* column name designates one column of its table.
IdHeader == << <<" ", "B", "r", "o", "n", "c", "o", " ", "I", "D">> >>
NameKeyHeader == << <<"N", "a", "m", "e", " ">>, <<"K", "e", "y">> >>

\* the cells of a key column: a number, the same digits as text, an empty cell
KeyValues == {IntVal(1), StrVal(1), NaN}
NameValue == StrVal(2)

BoundedSeq(S, n) == UNION {[1..k -> S] : k \in 0..n}

\* the two sheet-name boxes, which keep their default value "Sheet1"; a
\* workbook without a sheet of that name is among the files
HrtSheet == "Sheet1"
BbqSheet == "Sheet1"

\* an uploader's value: nothing, a file that is no workbook, a workbook with
\* one sheet
NoFile == [kind |-> "none", sheet |-> "", header |-> <<>>, rows |-> <<>>]
CorruptFile == [kind |-> "corrupt", sheet |-> "", header |-> <<>>, rows |-> <<>>]
Workbook(header, rows) ==
    [kind |-> "xlsx", sheet |-> "Sheet1", header |-> header, rows |-> rows]
OtherSheetFile == [kind |-> "xlsx", sheet |-> "Data", header |-> <<>>, rows |-> <<>>]
\* a workbook whose "Sheet1" is empty
EmptySheetFile == Workbook(<<>>, <<>>)

\* what can be dropped on the majors uploader and on the attendee uploader
HrtFiles ==
    {NoFile, CorruptFile, OtherSheetFile, EmptySheetFile}
    \cup {Workbook(IdHeader, r) : r \in BoundedSeq({<<k>> : k \in KeyValues}, MaxHrtRows)}
    \cup {Workbook(NameKeyHeader, r) :
             r \in BoundedSeq({<<NameValue, k>> : k \in KeyValues}, MaxHrtRows)}
BbqFiles ==
    {NoFile, CorruptFile, OtherSheetFile, EmptySheetFile}
    \cup {Workbook(IdHeader, r) : r \in BoundedSeq({<<k>> : k \in KeyValues}, MaxBbqRows)}
    \cup {Workbook(NameKeyHeader, r) :
             r \in BoundedSeq({<<NameValue, k>> : k \in KeyValues}, MaxBbqRows)}

\* ----------------------------------------------------------------- output
TableNames == {"HRT Majors", "BBQ Attendees"}
\* one st.error / st.warning / st.success / st.write / st.info of a run
Msg(kind, table, column, columns) ==
    [kind |-> kind, table |-> table, column |-> column, columns |-> columns]

\* ----------------------------------------------------------------- loader
\* pd.read_excel raises for a file it cannot parse and for a sheet name the
\* workbook does not hold
ReadExcelRaises(file, sheet_name) ==
    file.kind = "corrupt" \/ file.sheet # sheet_name

\* mutant: a failed read yields an empty table instead of None
LoadReturnsEmptyTable(file, sheet_name, table) ==
    IF ReadExcelRaises(file, sheet_name)
    THEN [df |-> [defined |-> TRUE, columns |-> <<>>, index |-> <<>>, rows |-> <<>>],
          msgs |-> {Msg("load_error", table, None, <<>>)}]
    ELSE [df |-> [defined |-> TRUE,
                  columns |-> [i \in 1..Len(file.header) |-> NormalizeName(file.header[i])],
                  index   |-> [i \in 1..Len(file.rows) |-> i - 1],
                  rows    |-> file.rows],
          msgs |-> {}]

\* load_excel_file: the DataFrame with cleaned column names, or None and an
\* error message
LoadExcelFile(file, sheet_name, table) ==
    IF ReadExcelRaises(file, sheet_name)
    THEN [df |-> NoDF, msgs |-> {Msg("load_error", table, None, <<>>)}]
    ELSE [df |-> [defined |-> TRUE,
                  columns |-> [i \in 1..Len(file.header) |-> NormalizeName(file.header[i])],
                  index   |-> [i \in 1..Len(file.rows) |-> i - 1],
                  rows    |-> file.rows],
          msgs |-> {}]

\* the frame read from an empty sheet has no columns; whether the .str
\* accessor of line 59 accepts such a column index depends on the installed
\* pandas, which the repository does not pin: it either cleans nothing or
\* raises inside the `try`
StrAccessorMayRaise(file, sheet_name) ==
    ~ReadExcelRaises(file, sheet_name) /\ file.header = <<>>

\* the results load_excel_file can have for one upload
LoadOutcomes(file, sheet_name, table) ==
    {LoadExcelFile(file, sheet_name, table)} \cup
    (IF StrAccessorMayRaise(file, sheet_name)
     THEN {[df |-> NoDF, msgs |-> {Msg("load_error", table, None, <<>>)}]}
     ELSE {})

\* mutant: the column is not looked for
ValidateWithoutCheck(df, file_name, required_column) ==
    [ok |-> df.defined, msgs |-> {}]

\* mutant: the error is shown without the list of columns
ValidateWithoutColumns(df, file_name, required_column) ==
    IF ~df.defined THEN [ok |-> FALSE, msgs |-> {}]
    ELSE IF ~HasColumn(df, required_column)
    THEN [ok |-> FALSE,
          msgs |-> {Msg("column_not_found", file_name, required_column, <<>>)}]
    ELSE [ok |-> TRUE, msgs |-> {}]

\* validate_dataframe of the main page
ValidateDataframe(df, file_name, required_column) ==
    IF ~df.defined THEN [ok |-> FALSE, msgs |-> {}]
    ELSE IF ~HasColumn(df, required_column)
    THEN [ok |-> FALSE,
          msgs |-> {Msg("column_not_found", file_name, required_column, <<>>),
                    Msg("available_columns", file_name, None, df.columns)}]
    ELSE [ok |-> TRUE, msgs |-> {}]

\* the inline validation of the testing page
ValidateSelected(df, file_name, selected_column) ==
    IF ~HasColumn(df, selected_column)
    THEN [ok |-> FALSE,
          msgs |-> {Msg("column_not_found", file_name, selected_column, <<>>)}]
    ELSE [ok |-> TRUE, msgs |-> {}]

\* ------------------------------------------------------ column selection
HasKeyword(col) == \E k \in Keywords : Contains(k, Lower(col))

\* the `for i, col in enumerate(options): if ...: idx = i; break` loop over
\* the outcomes of its test: the index of the first True, 0 when there is none
FirstIndex(accepted) ==
    IF \E i \in 1..Len(accepted) : accepted[i]
    THEN (CHOOSE i \in 1..Len(accepted) :
              /\ accepted[i]
              /\ \A j \in 1..(i - 1) : ~accepted[j]) - 1
    ELSE 0

\* mutant: the loop without its `break`, which ends on the last match
DefaultHrtIdxLast(options) ==
    IF \E i \in 1..Len(options) : HasKeyword(options[i])
    THEN (CHOOSE i \in 1..Len(options) :
              /\ HasKeyword(options[i])
              /\ \A j \in (i + 1)..Len(options) : ~HasKeyword(options[j])) - 1
    ELSE 0

DefaultHrtIdx(options) ==
    FirstIndex([i \in 1..Len(options) |-> HasKeyword(options[i])])

DefaultBbqIdx(options, hrt_comparison_column) ==
    IF Truthy(hrt_comparison_column)
    THEN FirstIndex([i \in 1..Len(options) |->
                       \/ Lower(options[i]) = Lower(hrt_comparison_column)
                       \/ HasKeyword(options[i])])
    ELSE 0

\* a selectbox never rendered
NoWidget == <<>>

\* st.selectbox(options=options, index=index, key=...): the stored choice while
\* the widget is the one of the previous run (same options, same default),
\* else the default option; None for an empty list of options
Selectbox(options, index, stored, stored_id) ==
    IF options = <<>> THEN None
    ELSE IF stored_id = <<options, index>> /\ stored # None THEN stored
    ELSE options[index + 1]

\* ------------------------------------------------------------------ state
VARIABLES
    page,                \* "main" (streamlit_app.py) or "testing" (testing_area_app.py)
    hrt_file, bbq_file,  \* the two st.file_uploader widgets
    comparison_column,           \* main page: the column-name box
    hrt_column_select, bbq_column_select,  \* testing page: st.session_state
    hrt_select_id, bbq_select_id,          \* the selectboxes of the last run
    clicked,             \* st.button returns True in this run
    button_shown,        \* the run rendered the filter button
    pc,                  \* the position of the script run; "idle" between runs
    hrt_df, bbq_df,      \* the script's locals
    messages,            \* what the run has reported
    non_hrt_attendees, hrt_at_bbq,  \* the results of the comparison
    summary,             \* the counts of the "Results" box
    excel_data,          \* the bytes handed to st.download_button
    norm_raw, norm_name, norm_prev, norm_count  \* NormSpec: a name being cleaned

inputs == <<page, hrt_file, bbq_file, comparison_column>>
session == <<hrt_column_select, bbq_column_select, hrt_select_id, bbq_select_id>>
locals == <<hrt_df, bbq_df>>
results == <<non_hrt_attendees, hrt_at_bbq, summary, excel_data>>
norm == <<norm_raw, norm_name, norm_prev, norm_count>>
vars == <<inputs, session, clicked, button_shown, pc, locals, messages, results, norm>>

NoSummary == [shown |-> FALSE, total_bbq |-> 0, total_hrt |-> 0,
              hrt_at_bbq |-> 0, non_hrt |-> 0]
NoExcel == [sheet |-> "", columns |-> <<>>, rows |-> <<>>]

\* the state the first script run of a page starts in
WorkflowInit ==
    /\ page \in {"main", "testing"}
    /\ hrt_file = NoFile /\ bbq_file = NoFile
    /\ comparison_column = DefaultComparisonColumn
    /\ hrt_column_select = None /\ bbq_column_select = None
    /\ hrt_select_id = NoWidget /\ bbq_select_id = NoWidget
    /\ clicked = FALSE /\ button_shown = FALSE
    /\ pc = "load_hrt"
    /\ hrt_df = NoDF /\ bbq_df = NoDF
    /\ messages = {}
    /\ non_hrt_attendees = NoDF /\ hrt_at_bbq = NoDF
    /\ summary = NoSummary /\ excel_data = NoExcel

Init ==
    /\ WorkflowInit
    /\ norm_raw = <<>> /\ norm_name = <<>> /\ norm_prev = <<>> /\ norm_count = 0

\* ------------------------------------------------------------ user events
\* every interaction with a widget reruns the script from the top: the locals
\* and everything rendered by the previous run are gone
Rerun(is_click) ==
    /\ pc = "idle"
    /\ pc' = "load_hrt"
    /\ clicked' = is_click
    /\ button_shown' = FALSE
    /\ hrt_df' = NoDF /\ bbq_df' = NoDF
    /\ messages' = {}
    /\ non_hrt_attendees' = NoDF /\ hrt_at_bbq' = NoDF
    /\ summary' = NoSummary /\ excel_data' = NoExcel
    /\ UNCHANGED norm

\* dropping a file on an empty uploader
UploadHrt(f) ==
    /\ hrt_file = NoFile /\ f # NoFile
    /\ hrt_file' = f
    /\ Rerun(FALSE)
    /\ UNCHANGED <<page, bbq_file, comparison_column, session>>

UploadBbq(f) ==
    /\ bbq_file = NoFile /\ f # NoFile
    /\ bbq_file' = f
    /\ Rerun(FALSE)
    /\ UNCHANGED <<page, hrt_file, comparison_column, session>>

\* removing the uploaded file from an uploader
RemoveHrt ==
    /\ hrt_file # NoFile
    /\ hrt_file' = NoFile
    /\ Rerun(FALSE)
    /\ UNCHANGED <<page, bbq_file, comparison_column, session>>

RemoveBbq ==
    /\ bbq_file # NoFile
    /\ bbq_file' = NoFile
    /\ Rerun(FALSE)
    /\ UNCHANGED <<page, hrt_file, comparison_column, session>>

\* main page: typing a column name
SetComparisonColumn(c) ==
    /\ page = "main"
    /\ c # comparison_column
    /\ comparison_column' = c
    /\ Rerun(FALSE)
    /\ UNCHANGED <<page, hrt_file, bbq_file, session>>

\* testing page: choosing an option of a selectbox the last run rendered
SelectHrtColumn(i) ==
    /\ page = "testing"
    /\ hrt_select_id # NoWidget
    /\ i \in 1..Len(hrt_select_id[1])
    /\ hrt_select_id[1][i] # hrt_column_select
    /\ hrt_column_select' = hrt_select_id[1][i]
    /\ Rerun(FALSE)
    /\ UNCHANGED <<inputs, bbq_column_select, hrt_select_id, bbq_select_id>>

SelectBbqColumn(i) ==
    /\ page = "testing"
    /\ bbq_select_id # NoWidget
    /\ i \in 1..Len(bbq_select_id[1])
    /\ bbq_select_id[1][i] # bbq_column_select
    /\ bbq_column_select' = bbq_select_id[1][i]
    /\ Rerun(FALSE)
    /\ UNCHANGED <<inputs, hrt_column_select, hrt_select_id, bbq_select_id>>

\* pressing "Filter Non-HRT Attendees", which only a run that rendered it offers
ClickButton ==
    /\ button_shown
    /\ Rerun(TRUE)
    /\ UNCHANGED <<inputs, session>>

\* --------------------------------------------------------- the script run
\* `if hrt_file is not None: hrt_df = load_excel_file(hrt_file, hrt_sheet)`
LoadHrt ==
    /\ pc = "load_hrt"
    /\ \E r \in LoadOutcomes(hrt_file, HrtSheet, "HRT Majors") :
       IF hrt_file.kind # "none"
       THEN /\ hrt_df' = r.df
            /\ messages' = messages \cup r.msgs \cup
                   (IF r.df.defined
                    THEN {Msg("loaded", "HRT Majors", None, r.df.columns)}
                    ELSE {})
       ELSE UNCHANGED <<hrt_df, messages>>
    /\ pc' = "load_bbq"
    /\ UNCHANGED <<inputs, session, clicked, button_shown, bbq_df, results, norm>>

\* `if bbq_file is not None: bbq_df = load_excel_file(bbq_file, bbq_sheet)`
LoadBbq ==
    /\ pc = "load_bbq"
    /\ \E r \in LoadOutcomes(bbq_file, BbqSheet, "BBQ Attendees") :
       IF bbq_file.kind # "none"
       THEN /\ bbq_df' = r.df
            /\ messages' = messages \cup r.msgs \cup
                   (IF r.df.defined
                    THEN {Msg("loaded", "BBQ Attendees", None, r.df.columns)}
                    ELSE {})
       ELSE UNCHANGED <<bbq_df, messages>>
    /\ pc' = IF page = "testing" THEN "select" ELSE "process"
    /\ UNCHANGED <<inputs, session, clicked, button_shown, hrt_df, results, norm>>

\* the "Data type validation" of the testing page
TypeValidation(hrt_col, bbq_col) ==
    LET hrt_type == SampleType(Series(hrt_df, hrt_col))
        bbq_type == SampleType(Series(bbq_df, bbq_col))
    IN IF hrt_type # "None" /\ bbq_type # "None"
       THEN IF hrt_type # bbq_type
            THEN {Msg("type_mismatch", "", None, <<>>)}
            ELSE {Msg("types_match", "", None, <<>>)}
       ELSE {}

\* testing page, "Column Selection for Comparison": the two selectboxes with
\* their detected defaults, then the type validation.  A run that does not
\* render the selectboxes drops their session state.
ColumnSelection ==
    /\ pc = "select"
    /\ IF hrt_df.defined /\ bbq_df.defined
       THEN LET hrt_idx == DefaultHrtIdx(hrt_df.columns)
                hrt_col == Selectbox(hrt_df.columns, hrt_idx,
                                     hrt_column_select, hrt_select_id)
                bbq_idx == DefaultBbqIdx(bbq_df.columns, hrt_col)
                bbq_col == Selectbox(bbq_df.columns, bbq_idx,
                                     bbq_column_select, bbq_select_id)
            IN /\ hrt_column_select' = hrt_col
               /\ hrt_select_id' = <<hrt_df.columns, hrt_idx>>
               /\ bbq_column_select' = bbq_col
               /\ bbq_select_id' = <<bbq_df.columns, bbq_idx>>
               /\ messages' = messages \cup
                      (IF Truthy(hrt_col) /\ Truthy(bbq_col)
                       THEN TypeValidation(hrt_col, bbq_col)
                       ELSE {})
       ELSE /\ hrt_column_select' = None /\ bbq_column_select' = None
            /\ hrt_select_id' = NoWidget /\ bbq_select_id' = NoWidget
            /\ UNCHANGED messages
    /\ pc' = "process"
    /\ UNCHANGED <<inputs, clicked, button_shown, locals, results, norm>>

\* "Process Data" up to the button: the validation of the key columns
Process ==
    /\ pc = "process"
    /\ IF hrt_df.defined /\ bbq_df.defined
       THEN IF page = "main"
            THEN LET hrt_valid == ValidateDataframe(hrt_df, "HRT Majors", comparison_column)
                     bbq_valid == ValidateDataframe(bbq_df, "BBQ Attendees", comparison_column)
                 IN /\ messages' = messages \cup hrt_valid.msgs \cup bbq_valid.msgs \cup
                           (IF hrt_valid.ok /\ bbq_valid.ok THEN {}
                            ELSE {Msg("cannot_process", "", None, <<>>)})
                    /\ button_shown' = (hrt_valid.ok /\ bbq_valid.ok)
            ELSE IF Truthy(hrt_column_select) /\ Truthy(bbq_column_select)
            THEN LET hrt_valid == ValidateSelected(hrt_df, "HRT Majors", hrt_column_select)
                     bbq_valid == ValidateSelected(bbq_df, "BBQ Attendees", bbq_column_select)
                 IN /\ messages' = messages \cup hrt_valid.msgs \cup bbq_valid.msgs \cup
                           (IF hrt_valid.ok /\ bbq_valid.ok THEN {}
                            ELSE {Msg("cannot_process", "", None, <<>>)})
                    /\ button_shown' = (hrt_valid.ok /\ bbq_valid.ok)
            ELSE /\ messages' = messages \cup {Msg("selection_required", "", None, <<>>)}
                 /\ button_shown' = FALSE
       ELSE UNCHANGED <<messages, button_shown>>
    /\ pc' = IF button_shown' /\ clicked THEN "filter" ELSE "idle"
    /\ UNCHANGED <<inputs, session, clicked, locals, results, norm>>

\* the key columns the processing section uses: the typed name for both tables
\* on the main page, st.session_state's two choices on the testing page
HrtKeyColumn == IF page = "main" THEN comparison_column ELSE hrt_column_select
BbqKeyColumn == IF page = "main" THEN comparison_column ELSE bbq_column_select

\* mutant: the comparison assigns its result to the attendee table itself
FilterInPlace ==
    /\ pc = "filter"
    /\ LET hrt_col == HrtKeyColumn
           bbq_col == BbqKeyColumn
           res     == FilterNonHrt(bbq_df, bbq_col, hrt_df, hrt_col)
       IN IF HasColumn(hrt_df, hrt_col) /\ HasColumn(bbq_df, bbq_col)
          THEN /\ non_hrt_attendees' = res
               /\ summary' = [shown      |-> TRUE,
                              total_bbq  |-> Len(bbq_df.rows),
                              total_hrt  |-> Len(hrt_df.rows),
                              hrt_at_bbq |-> Len(bbq_df.rows) - Len(res.rows),
                              non_hrt    |-> Len(res.rows)]
               /\ hrt_at_bbq' = IF page = "testing"
                                THEN FilterHrtAtBbq(bbq_df, bbq_col, hrt_df, hrt_col)
                                ELSE NoDF
               /\ IF HasRows(res)
                  THEN /\ excel_data' = CreateDownloadLink(res)
                       /\ messages' = messages \cup {Msg("download", "", None, res.columns)}
                  ELSE /\ excel_data' = NoExcel
                       /\ messages' = messages \cup {Msg("all_hrt", "", None, <<>>)}
          ELSE \* a KeyError, caught by `except Exception`
               /\ messages' = messages \cup {Msg("process_error", "", None, <<>>)}
               /\ UNCHANGED results
    /\ pc' = "idle"
    /\ bbq_df' = IF HasColumn(hrt_df, HrtKeyColumn) /\ HasColumn(bbq_df, BbqKeyColumn)
                  THEN FilterNonHrt(bbq_df, BbqKeyColumn, hrt_df, HrtKeyColumn)
                  ELSE bbq_df
    /\ UNCHANGED <<inputs, session, clicked, button_shown, hrt_df, norm>>

\* the body of `if st.button(...)`: the comparison, the results box, the export
Filter ==
    /\ pc = "filter"
    /\ LET hrt_col == HrtKeyColumn
           bbq_col == BbqKeyColumn
           res     == FilterNonHrt(bbq_df, bbq_col, hrt_df, hrt_col)
       IN IF HasColumn(hrt_df, hrt_col) /\ HasColumn(bbq_df, bbq_col)
          THEN /\ non_hrt_attendees' = res
               /\ summary' = [shown      |-> TRUE,
                              total_bbq  |-> Len(bbq_df.rows),
                              total_hrt  |-> Len(hrt_df.rows),
                              hrt_at_bbq |-> Len(bbq_df.rows) - Len(res.rows),
                              non_hrt    |-> Len(res.rows)]
               /\ hrt_at_bbq' = IF page = "testing"
                                THEN FilterHrtAtBbq(bbq_df, bbq_col, hrt_df, hrt_col)
                                ELSE NoDF
               /\ IF HasRows(res)
                  THEN /\ excel_data' = CreateDownloadLink(res)
                       /\ messages' = messages \cup {Msg("download", "", None, res.columns)}
                  ELSE /\ excel_data' = NoExcel
                       /\ messages' = messages \cup {Msg("all_hrt", "", None, <<>>)}
          ELSE \* a KeyError, caught by `except Exception`
               /\ messages' = messages \cup {Msg("process_error", "", None, <<>>)}
               /\ UNCHANGED results
    /\ pc' = "idle"
    /\ UNCHANGED <<inputs, session, clicked, button_shown, locals, norm>>

Next ==
    \/ \E f \in HrtFiles : UploadHrt(f)
    \/ \E f \in BbqFiles : UploadBbq(f)
    \/ RemoveHrt
    \/ RemoveBbq
    \/ \E c \in ComparisonColumns : SetComparisonColumn(c)
    \/ \E i \in 1..2 : SelectHrtColumn(i)
    \/ \E i \in 1..2 : SelectBbqColumn(i)
    \/ ClickButton
    \/ LoadHrt
    \/ LoadBbq
    \/ ColumnSelection
    \/ Process
    \/ Filter

Spec == Init /\ [][Next]_vars

\* ------------------------------------------------- the loader's name cleaning
\* NormSpec: any raw column name over NormChars, cleaned as load_excel_file
\* cleans the names of a sheet, and the cleaned name cleaned again as a
\* second load of a sheet carrying the cleaned names would
NormChars == {" ", "I", "i", "d"}

NormInit ==
    /\ WorkflowInit
    /\ norm_raw \in BoundedSeq(NormChars, MaxNameLen)
    /\ norm_name = norm_raw /\ norm_prev = norm_raw /\ norm_count = 0

NormalizeColumn ==
    /\ norm_count < 2
    /\ norm_prev' = norm_name
    /\ norm_name' = NormalizeName(norm_name)
    /\ norm_count' = norm_count + 1
    /\ UNCHANGED <<norm_raw, inputs, session, clicked, button_shown, pc, locals,
                   messages, results>>

NormNext == NormalizeColumn

NormSpec == NormInit /\ [][NormNext]_vars

\* DetectSpec: the testing page run on workbooks with up to MaxCols columns,
\* among them names with and without a keyword, and the user changing the
\* two selections
MaxCols == 3
DetectNames ==
    { <<"N", "a", "m", "e">>, <<"K", "e", "y">>, <<"B", "i", "d">>,
      <<"s", "t", "u", "d", "e", "n", "t", " ", "I", "D">> }
DetectHeaders ==
    {h \in BoundedSeq(DetectNames, MaxCols) :
        \A i, j \in 1..Len(h) : i # j => h[i] # h[j]}
DetectFiles == {Workbook(h, <<>>) : h \in DetectHeaders}

DetectInit ==
    /\ page = "testing"
    /\ hrt_file \in DetectFiles /\ bbq_file \in DetectFiles
    /\ comparison_column = DefaultComparisonColumn
    /\ hrt_column_select = None /\ bbq_column_select = None
    /\ hrt_select_id = NoWidget /\ bbq_select_id = NoWidget
    /\ clicked = FALSE /\ button_shown = FALSE
    /\ pc = "load_hrt"
    /\ hrt_df = NoDF /\ bbq_df = NoDF
    /\ messages = {}
    /\ non_hrt_attendees = NoDF /\ hrt_at_bbq = NoDF
    /\ summary = NoSummary /\ excel_data = NoExcel
    /\ norm_raw = <<>> /\ norm_name = <<>> /\ norm_prev = <<>> /\ norm_count = 0

DetectNext ==
    \/ LoadHrt
    \/ LoadBbq
    \/ ColumnSelection
    \/ Process
    \/ \E i \in 1..MaxCols : SelectHrtColumn(i)
    \/ \E i \in 1..MaxCols : SelectBbqColumn(i)

DetectSpec == DetectInit /\ [][DetectNext]_vars

\* ------------------------------------------------------------- properties
\* the run has been through the validation of the processing section with
\* both tables loaded and a key column chosen for each
Validated ==
    /\ pc \in {"idle", "filter"}
    /\ hrt_df.defined /\ bbq_df.defined
    /\ page = "testing" => Truthy(hrt_column_select) /\ Truthy(bbq_column_select)

\* the comparison of this run has produced its result
Compared == non_hrt_attendees.defined

\* the key of row i of the attendee table, the set of keys of the majors table
BbqKey(i) == bbq_df.rows[i][ColPos(bbq_df, BbqKeyColumn)]
HrtKeySet == {hrt_df.rows[j][ColPos(hrt_df, HrtKeyColumn)] : j \in 1..Len(hrt_df.rows)}

\* the rows of the attendee table found in the result, by their index label
KeptRows == {non_hrt_attendees.index[k] + 1 : k \in 1..Len(non_hrt_attendees.rows)}

\* C1: the result of a comparison is exactly the rows of the attendee table
\* whose key is not in the set of keys of the majors table: every result row
\* is a row of the attendee table, none has a key of the majors table, and
\* every attendee row whose key is absent from the majors keys is in it.
C1_ResultIsAntiJoin ==
    Compared =>
        /\ \A k \in 1..Len(non_hrt_attendees.rows) :
              LET i == non_hrt_attendees.index[k] + 1 IN
              /\ i \in 1..Len(bbq_df.rows)
              /\ non_hrt_attendees.rows[k] = bbq_df.rows[i]
              /\ BbqKey(i) \notin HrtKeySet
        /\ \A i \in 1..Len(bbq_df.rows) :
              BbqKey(i) \notin HrtKeySet => i \in KeptRows

\* a comparison that kept one attendee row and dropped another
C1_Witness ==
    /\ Compared
    /\ Len(non_hrt_attendees.rows) >= 1
    /\ Len(non_hrt_attendees.rows) < Len(bbq_df.rows)

\* the attendee rows whose key is a key of the majors table
MatchedRows == {i \in 1..Len(bbq_df.rows) : BbqKey(i) \in HrtKeySet}

\* C2: after a comparison, the result rows and the attendee rows whose key is
\* in the majors key set (the reported "HRT Majors at BBQ" count, and the rows
\* of hrt_at_bbq on the testing page) add up to the attendee rows.
C2_CountsAddUp ==
    summary.shown =>
        /\ Len(non_hrt_attendees.rows) + Cardinality(MatchedRows) = Len(bbq_df.rows)
        /\ summary.hrt_at_bbq = Cardinality(MatchedRows)
        /\ summary.non_hrt = Len(non_hrt_attendees.rows)
        /\ summary.total_bbq = Len(bbq_df.rows)
        /\ page = "testing" => Len(hrt_at_bbq.rows) = Cardinality(MatchedRows)

\* a comparison on the testing page with majors at the event and others
C2_Witness ==
    /\ summary.shown
    /\ page = "testing"
    /\ Len(hrt_at_bbq.rows) >= 1
    /\ Len(non_hrt_attendees.rows) >= 1

\* the key column chosen for a table is not a column of it
MissingIn(table) ==
    IF table = "HRT Majors" THEN ~HasColumn(hrt_df, HrtKeyColumn)
    ELSE ~HasColumn(bbq_df, BbqKeyColumn)
KeyColumnOf(table) == IF table = "HRT Majors" THEN HrtKeyColumn ELSE BbqKeyColumn
TableOf(table) == IF table = "HRT Majors" THEN hrt_df ELSE bbq_df

\* C3: a key column absent from its table is reported with an error naming the
\* column and the table, the filter action is not offered, and no comparison
\* runs and no result exists while a key column is absent from its table.
C3_MissingColumnRejected ==
    /\ Validated =>
          \A table \in TableNames :
              MissingIn(table) =>
                  /\ Msg("column_not_found", table, KeyColumnOf(table), <<>>) \in messages
                  /\ ~button_shown
                  /\ pc # "filter"
    /\ (pc = "filter" \/ Compared \/ summary.shown \/ excel_data # NoExcel) =>
          \A table \in TableNames : ~MissingIn(table)

\* the typed column is a column of the majors table and not of the attendees'
C3_Witness ==
    /\ Validated /\ pc = "idle"
    /\ ~MissingIn("HRT Majors") /\ MissingIn("BBQ Attendees")
    /\ Msg("column_not_found", "BBQ Attendees", BbqKeyColumn, <<>>) \in messages
    /\ ~Compared

TypeMismatch ==
    \E j \in 1..Len(hrt_df.rows), i \in 1..Len(bbq_df.rows) :
        LET h == hrt_df.rows[j][ColPos(hrt_df, HrtKeyColumn)] IN
        /\ ~IsNa(h) /\ ~IsNa(BbqKey(i))
        /\ h.t # BbqKey(i).t

\* C5: whenever the two key columns hold values of different types a warning
\* is shown, the filter action stays available, and the comparison matches by
\* literal equality: a dropped attendee row has a key of the majors table of
\* its own type.
C5_TypeMismatchWarned ==
    (Validated /\ ~MissingIn("HRT Majors") /\ ~MissingIn("BBQ Attendees") /\ TypeMismatch) =>
        /\ Msg("type_mismatch", "", None, <<>>) \in messages
        /\ button_shown
        /\ Compared =>
              \A i \in 1..Len(bbq_df.rows) :
                  i \notin KeptRows =>
                      \E h \in HrtKeySet : h.t = BbqKey(i).t /\ h.v = BbqKey(i).v

\* C6: an attendee row with an empty key is left out of the result exactly
\* when the majors table has a row with an empty key.
C6_EmptyKeysCompareLiterally ==
    Compared =>
        \A i \in 1..Len(bbq_df.rows) :
            IsNa(BbqKey(i)) =>
                (i \notin KeptRows <=> \E h \in HrtKeySet : IsNa(h))

\* an attendee with an empty key dropped, another attendee kept
C6_Witness ==
    /\ Compared
    /\ \E i \in 1..Len(bbq_df.rows) : IsNa(BbqKey(i)) /\ i \notin KeptRows
    /\ KeptRows # {}

\* the key set of column `col` of a loaded table
KeySetOf(df, col) == {df.rows[j][ColPos(df, col)] : j \in 1..Len(df.rows)}

\* the majors tables the uploader can hold that have the key column of this run
\* and the same set of keys in it as the majors table of this run
SameKeySetTables ==
    {t \in {LoadExcelFile(f, HrtSheet, "HRT Majors").df : f \in HrtFiles} :
        /\ t.defined
        /\ HasColumn(t, HrtKeyColumn)
        /\ KeySetOf(t, HrtKeyColumn) = HrtKeySet}

\* C7: the result depends on the set of majors keys only (a majors table with
\* rows duplicated or reordered gives the same result), and attendee rows
\* with the same key are all kept, each once, or all dropped.
C7_SetSemantics ==
    Compared =>
        /\ \A t \in SameKeySetTables :
              FilterNonHrt(bbq_df, BbqKeyColumn, t, HrtKeyColumn) = non_hrt_attendees
        /\ \A i, j \in 1..Len(bbq_df.rows) :
              BbqKey(i) = BbqKey(j) => (i \in KeptRows <=> j \in KeptRows)
        /\ \A k, l \in 1..Len(non_hrt_attendees.rows) :
              non_hrt_attendees.index[k] = non_hrt_attendees.index[l] => k = l

\* a majors table with a duplicated key and one with two keys in some order,
\* against attendees of which two share a key and are kept
C7_Witness ==
    /\ Compared
    /\ Len(hrt_df.rows) > Cardinality(HrtKeySet)
    /\ Cardinality(SameKeySetTables) > 1
    /\ \E i, j \in KeptRows : i # j /\ BbqKey(i) = BbqKey(j)

\* C8: with no row in the majors table the result is the attendee table: all
\* rows, in the same order, under the same columns.
C8_EmptyMajorsPassAll ==
    (Compared /\ Len(hrt_df.rows) = 0) =>
        /\ non_hrt_attendees.rows = bbq_df.rows
        /\ non_hrt_attendees.index = bbq_df.index
        /\ non_hrt_attendees.columns = bbq_df.columns

\* two different attendee rows compared with an empty majors table
C8_Witness ==
    /\ Compared
    /\ Len(hrt_df.rows) = 0
    /\ Len(bbq_df.rows) >= 2
    /\ bbq_df.rows[1] # bbq_df.rows[2]

\* C9: with no row in the attendee table the result is empty, whatever the
\* majors table holds, and the run offers no download.
C9_EmptyAttendeesEmptyResult ==
    (Compared /\ Len(bbq_df.rows) = 0) =>
        /\ non_hrt_attendees.rows = <<>>
        /\ summary.non_hrt = 0
        /\ excel_data = NoExcel
        /\ Msg("all_hrt", "", None, <<>>) \in messages

\* an empty attendee table compared with a majors table that has rows
C9_Witness ==
    /\ Compared
    /\ Len(bbq_df.rows) = 0
    /\ Len(hrt_df.rows) >= 1

\* C10: cleaning an already cleaned column name yields the same name.
C10_NormalizeIdempotent ==
    norm_count = 2 => norm_name = norm_prev

\* a name with surrounding whitespace and capitals, cleaned twice
C10_Witness ==
    /\ norm_count = 2
    /\ Strip(norm_raw) # norm_raw
    /\ Lower(Strip(norm_raw)) # Strip(norm_raw)
    /\ norm_name # <<>>

\* ------------------------------------------------------------------- C11
\* C11: the exported file holds exactly the rows of the result table, under
\* exactly the columns of the attendee table (every row one cell per
\* attendee column: no index column, no majors column), in the one sheet
\* 'Non_HRT_Attendees'.
C11_ExportIsResultTable ==
    excel_data # NoExcel =>
        /\ Compared
        /\ excel_data.rows = non_hrt_attendees.rows
        /\ excel_data.columns = bbq_df.columns
        /\ \A i \in 1..Len(excel_data.rows) :
               Len(excel_data.rows[i]) = Len(bbq_df.columns)
        /\ excel_data.sheet = "Non_HRT_Attendees"

\* an export of some but not all rows of a two-column attendee table, the
\* majors table having another column list
C11_Witness ==
    /\ excel_data # NoExcel
    /\ Len(bbq_df.columns) = 2
    /\ hrt_df.columns # bbq_df.columns
    /\ Len(excel_data.rows) < Len(bbq_df.rows)

\* ------------------------------------------------------------------- C12
\* C12 as stated: every comparison that ran to completion offers a result
\* file, whatever the size of the result.
C12_AlwaysDownloadable ==
    Compared => excel_data # NoExcel

\* C12, amended: a click on validated tables always completes the
\* comparison; the completed comparison offers the result file when the
\* result has at least one row, and when it has none it offers no file and
\* says that all attendees are majors.
C12_DownloadableIffRows ==
    /\ (pc = "idle" /\ clicked /\ button_shown) =>
           (Compared /\ Msg("process_error", "", None, <<>>) \notin messages)
    /\ Compared =>
           IF Len(non_hrt_attendees.rows) > 0
           THEN /\ excel_data = CreateDownloadLink(non_hrt_attendees)
                /\ Msg("download", "", None, bbq_df.columns) \in messages
                /\ Msg("all_hrt", "", None, <<>>) \notin messages
           ELSE /\ excel_data = NoExcel
                /\ Msg("all_hrt", "", None, <<>>) \in messages
                /\ \A m \in messages : m.kind # "download"

\* a completed comparison of a non-empty attendee table, every attendee a
\* major
C12_Witness ==
    /\ Compared
    /\ Len(bbq_df.rows) > 0
    /\ Len(non_hrt_attendees.rows) = 0
    /\ excel_data = NoExcel

\* ------------------------------------------------------------------- C13
\* the run is past the load of the majors file / of the attendee file
HrtLoadDone == pc # "load_hrt"
BbqLoadDone == pc \notin {"load_hrt", "load_bbq"}
\* an uploaded file for which the loader returned None
HrtLoadFailed == HrtLoadDone /\ hrt_file.kind # "none" /\ ~hrt_df.defined
BbqLoadFailed == BbqLoadDone /\ bbq_file.kind # "none" /\ ~bbq_df.defined

\* C13: a file that cannot be parsed (no workbook, no sheet of the asked
\* name) makes the loader return None; every failed load is reported as an
\* error, the table stays None for the rest of the run (no second load), and
\* the run reaches neither the column selection and validation, nor the
\* button and the comparison, nor the export.
C13_LoadFailureEndsAttempt ==
    /\ (HrtLoadDone /\ hrt_file.kind # "none" /\ ReadExcelRaises(hrt_file, HrtSheet))
           => ~hrt_df.defined
    /\ (BbqLoadDone /\ bbq_file.kind # "none" /\ ReadExcelRaises(bbq_file, BbqSheet))
           => ~bbq_df.defined
    /\ HrtLoadFailed =>
           /\ Msg("load_error", "HRT Majors", None, <<>>) \in messages
           /\ \A m \in messages : ~(m.kind = "loaded" /\ m.table = "HRT Majors")
    /\ BbqLoadFailed =>
           /\ Msg("load_error", "BBQ Attendees", None, <<>>) \in messages
           /\ \A m \in messages : ~(m.kind = "loaded" /\ m.table = "BBQ Attendees")
    /\ (HrtLoadFailed \/ BbqLoadFailed) =>
           /\ \A m \in messages :
                  m.kind \notin {"column_not_found", "available_columns", "type_mismatch",
                                 "types_match", "selection_required", "cannot_process",
                                 "download", "all_hrt", "process_error"}
           /\ ~button_shown
           /\ pc # "filter"
           /\ ~Compared
           /\ hrt_at_bbq = NoDF
           /\ summary = NoSummary
           /\ excel_data = NoExcel

\* a finished run on a parsed majors table with rows and an attendee
\* workbook that has no sheet of the asked name
C13_Witness ==
    /\ pc = "idle"
    /\ bbq_file = OtherSheetFile
    /\ hrt_df.defined
    /\ Len(hrt_df.rows) > 0
    /\ Msg("load_error", "BBQ Attendees", None, <<>>) \in messages

\* ------------------------------------------------------------------- C14
\* the table has a column whose name differs from the entered name at most
\* in letter case
HasColumnIgnoringCase(df, name) ==
    \E i \in 1..Len(df.columns) : Lower(df.columns[i]) = Lower(name)

\* C14: on the main page, once the validation of a run is done, an entered
\* comparison column that differs from a column of each table only in
\* letter case is accepted (no 'column not found', the button is offered)
\* and a completed comparison has used that column.
C14_ColumnMatchedIgnoringCase ==
    (/\ page = "main"
     /\ pc \in {"filter", "idle"}
     /\ hrt_df.defined /\ bbq_df.defined
     /\ HasColumnIgnoringCase(hrt_df, comparison_column)
     /\ HasColumnIgnoringCase(bbq_df, comparison_column))
    => /\ \A m \in messages : m.kind \notin {"column_not_found", "cannot_process"}
       /\ button_shown
       /\ Compared => non_hrt_attendees =
              FilterNonHrt(bbq_df, Lower(comparison_column), hrt_df, Lower(comparison_column))

\* ------------------------------------------------------------------- C15
\* C15: from its load to the end of the run (column selection, type
\* validation, comparison, summary, export) each table is the table the
\* loader returned for the uploaded file: same column names, same rows and
\* values, same row labels.
C15_TablesUnchanged ==
    /\ (HrtLoadDone /\ hrt_df.defined) =>
           hrt_df \in {o.df : o \in LoadOutcomes(hrt_file, HrtSheet, "HRT Majors")}
    /\ (BbqLoadDone /\ bbq_df.defined) =>
           bbq_df \in {o.df : o \in LoadOutcomes(bbq_file, BbqSheet, "BBQ Attendees")}

\* the end of a testing-page run that selected columns, validated the types,
\* dropped some attendee rows and exported the others
C15_Witness ==
    /\ page = "testing"
    /\ pc = "idle"
    /\ Compared
    /\ \E m \in messages : m.kind \in {"type_mismatch", "types_match"}
    /\ Len(non_hrt_attendees.rows) > 0
    /\ Len(non_hrt_attendees.rows) < Len(bbq_df.rows)
    /\ summary.shown
    /\ excel_data # NoExcel

\* ------------------------------------------------------------------- C16
\* C16: the rows of the result are rows of the attendee table taken at
\* strictly increasing positions, so two result rows stand in the order they
\* have in the attendee table; the exported file lists the same rows in the
\* same order.
C16_OrderPreserved ==
    Compared =>
        LET n == Len(non_hrt_attendees.rows)
            position(k) == non_hrt_attendees.index[k] + 1
        IN /\ \A k \in 1..n :
                  /\ position(k) \in 1..Len(bbq_df.rows)
                  /\ non_hrt_attendees.rows[k] = bbq_df.rows[position(k)]
           /\ \A k, l \in 1..n : k < l => position(k) < position(l)
           /\ excel_data # NoExcel =>
                  /\ Len(excel_data.rows) = n
                  /\ \A k \in 1..n : excel_data.rows[k] = bbq_df.rows[position(k)]

\* an exported result of two different rows
C16_Witness ==
    /\ Compared
    /\ Len(non_hrt_attendees.rows) = 2
    /\ non_hrt_attendees.rows[1] # non_hrt_attendees.rows[2]
    /\ Len(excel_data.rows) = 2

\* ------------------------------------------------------------------- C17
\* a column name contains one of the keywords
NameHasKeyword(col) == \E k \in Keywords : Contains(k, col)

\* idx is the 0-based position of the first True of `accepted`, 0 when no
\* entry is True
IsFirstAccepted(accepted, idx) ==
    IF \E i \in 1..Len(accepted) : accepted[i]
    THEN /\ idx + 1 \in 1..Len(accepted)
         /\ accepted[idx + 1]
         /\ \A j \in 1..idx : ~accepted[j]
    ELSE idx = 0

\* the two selectboxes have been rendered by the current run
SelectionRendered ==
    /\ pc \in {"process", "idle"}
    /\ hrt_select_id # NoWidget /\ bbq_select_id # NoWidget

\* the majors default is the first column with a keyword, the first column
\* when there is none
HrtDefaultFollowsRule ==
    /\ hrt_select_id[1] = hrt_df.columns
    /\ IsFirstAccepted([i \in 1..Len(hrt_df.columns) |->
                           NameHasKeyword(hrt_df.columns[i])],
                       hrt_select_id[2])

\* the attendee default is the first column equal to the selected majors
\* column or with a keyword, the first column when there is none
BbqDefaultFollowsRule ==
    /\ bbq_select_id[1] = bbq_df.columns
    /\ IsFirstAccepted([i \in 1..Len(bbq_df.columns) |->
                           \/ bbq_df.columns[i] = hrt_column_select
                           \/ NameHasKeyword(bbq_df.columns[i])],
                       bbq_select_id[2])

====
